---- MODULE Spec2Model ----
(***************************************************************************)
(* A model of krouter: the per-method trie of routes (tree.go), the router *)
(* that registers, dispatches and reverse-generates routes (router.go),    *)
(* and the request-scoped parameter store.                                 *)
(*                                                                         *)
(* Go strings are sequences of one-character strings, so that Split,       *)
(* TrimPrefix, concatenation, indexing and regular-expression matching are *)
(* computed on the text itself.                                            *)
(***************************************************************************)
EXTENDS Naturals, Sequences, FiniteSets, TLC

(***************************************************************************)
(* strings                                                                 *)
(***************************************************************************)

\* strings.Split(s, sep) for a one-character separator: n separators give
\* n+1 pieces, empty pieces kept (Split("", "/") is [""]).
RECURSIVE SplitFrom(_, _, _, _)
SplitFrom(s, sep, i, cur) ==
    IF i > Len(s) THEN <<cur>>
    ELSE IF s[i] = sep THEN <<cur>> \o SplitFrom(s, sep, i + 1, <<>>)
    ELSE SplitFrom(s, sep, i + 1, Append(cur, s[i]))

Split(s, sep) == SplitFrom(s, sep, 1, <<>>)

\* strings.Join(list, sep)
RECURSIVE Join(_, _)
Join(list, sep) ==
    IF list = <<>> THEN <<>>
    ELSE IF Len(list) = 1 THEN list[1]
    ELSE list[1] \o <<sep>> \o Join(Tail(list), sep)

\* strings.HasSuffix(s, "/")
HasSuffixSlash(s) == Len(s) > 0 /\ s[Len(s)] = "/"

\* trimPathPrefix: strings.TrimPrefix(pattern, "/") removes one leading "/".
trimPathPrefix(pattern) ==
    IF Len(pattern) > 0 /\ pattern[1] = "/" THEN Tail(pattern) ELSE pattern

\* splitPattern: strings.Split(pattern, "/")
splitPattern(pattern) == Split(pattern, "/")

(***************************************************************************)
(* regular expressions: the fragment of Go's regexp syntax that the        *)
(* router builds and is given here: literal characters, the classes \w and *)
(* \d (bare or in brackets) repeated with +, and a capture group around    *)
(* one such repetition.                                                    *)
(***************************************************************************)

Digits == {"0", "1", "2", "3", "4", "5", "6", "7", "8", "9"}
Letters == {"a", "b", "c", "d", "e", "f", "g", "h", "i", "j", "k", "l", "m",
            "n", "o", "p", "q", "r", "s", "t", "u", "v", "w", "x", "y", "z"}
WordChars == Digits \cup Letters \cup {"_"}
MetaChars == {"(", ")", "[", "]", "\\", "+", "*", "?", "|", ".", "^", "$"}

defaultPattern == <<"[", "\\", "w", "]", "+">>
idPattern == <<"[", "\\", "d", "]", "+">>
idKey == <<"i", "d">>

ClassOf(x) == IF x = "w" THEN WordChars ELSE Digits

\* The name (w or d) of the class of the repetition at position i.
\* One repetition c+ at position i of the expression e: 0 when there is none,
\* else the position after it.  Forms: \w+  \d+  [\w]+  [\d]+
ClassPlusEnd(e, i) ==
    IF i + 2 <= Len(e) /\ e[i] = "\\" /\ e[i + 1] \in {"w", "d"} /\ e[i + 2] = "+"
    THEN i + 3
    ELSE IF i + 4 <= Len(e) /\ e[i] = "[" /\ e[i + 1] = "\\" /\ e[i + 2] \in {"w", "d"}
            /\ e[i + 3] = "]" /\ e[i + 4] = "+"
    THEN i + 5
    ELSE 0

ClassPlusSet(e, i) == IF e[i] = "\\" THEN e[i + 1] ELSE e[i + 2]

\* regexp.Compile: the expression as a sequence of atoms, or an error.
RECURSIVE CompileFrom(_, _, _)
CompileFrom(e, i, atoms) ==
    IF i > Len(e) THEN [ok |-> TRUE, atoms |-> atoms]
    ELSE IF e[i] = "(" /\ ClassPlusEnd(e, i + 1) # 0
            /\ ClassPlusEnd(e, i + 1) <= Len(e) /\ e[ClassPlusEnd(e, i + 1)] = ")"
    THEN CompileFrom(e, ClassPlusEnd(e, i + 1) + 1,
                     Append(atoms, [lit |-> "", cls |-> ClassPlusSet(e, i + 1), cap |-> TRUE]))
    ELSE IF ClassPlusEnd(e, i) # 0
    THEN CompileFrom(e, ClassPlusEnd(e, i),
                     Append(atoms, [lit |-> "", cls |-> ClassPlusSet(e, i), cap |-> FALSE]))
    ELSE IF e[i] \in MetaChars THEN [ok |-> FALSE, atoms |-> <<>>]
    ELSE CompileFrom(e, i + 1, Append(atoms, [lit |-> e[i], cls |-> "", cap |-> FALSE]))

Compile(e) == CompileFrom(e, 1, <<>>)

\* The number of characters of class cls in s from position i on.
RECURSIVE Run(_, _, _)
Run(s, i, cls) == IF i <= Len(s) /\ s[i] \in cls THEN 1 + Run(s, i + 1, cls) ELSE 0

\* The match of atoms k.. at position i of s that a backtracking search
\* prefers (a repetition takes as much as it can): [ok, end, caps].
RECURSIVE MatchFrom(_, _, _, _)
RECURSIVE MatchPlus(_, _, _, _, _)
MatchFrom(atoms, k, s, i) ==
    IF k > Len(atoms) THEN [ok |-> TRUE, end |-> i, caps |-> <<>>]
    ELSE IF atoms[k].lit # ""
    THEN IF i <= Len(s) /\ s[i] = atoms[k].lit
         THEN MatchFrom(atoms, k + 1, s, i + 1)
         ELSE [ok |-> FALSE, end |-> i, caps |-> <<>>]
    ELSE MatchPlus(atoms, k, s, i, Run(s, i, ClassOf(atoms[k].cls)))

MatchPlus(atoms, k, s, i, n) ==
    IF n = 0 THEN [ok |-> FALSE, end |-> i, caps |-> <<>>]
    ELSE LET rest == MatchFrom(atoms, k + 1, s, i + n)
         IN  IF rest.ok
             THEN [ok |-> TRUE, end |-> rest.end,
                   caps |-> IF atoms[k].cap
                            THEN <<SubSeq(s, i, i + n - 1)>> \o rest.caps
                            ELSE rest.caps]
             ELSE MatchPlus(atoms, k, s, i, n - 1)

\* Regexp.FindSubmatch: the leftmost match, as <<whole, group 1, ...>>, or
\* <<>> (nil) when the expression matches nowhere in s.
RECURSIVE FindSubmatchFrom(_, _, _)
FindSubmatchFrom(atoms, s, i) ==
    IF i > Len(s) + 1 THEN <<>>
    ELSE LET m == MatchFrom(atoms, 1, s, i)
         IN  IF m.ok THEN <<SubSeq(s, i, m.end - 1)>> \o m.caps
             ELSE FindSubmatchFrom(atoms, s, i + 1)

FindSubmatch(atoms, s) == FindSubmatchFrom(atoms, s, 1)

\* Regexp.Find(s) != nil
Finds(atoms, s) == FindSubmatch(atoms, s) # <<>>

(***************************************************************************)
(* maps with string keys (paramsMapType, the params of Generate): sets of   *)
(* <<key, value>> pairs with one pair per key; a missing key reads as "".   *)
(***************************************************************************)

MapHas(m, k) == \E p \in m : p[1] = k
MapGet(m, k) == IF MapHas(m, k) THEN (CHOOSE p \in m : p[1] = k)[2] ELSE <<>>
MapPut(m, k, v) == {p \in m : p[1] # k} \cup {<<k, v>>}
MapKeys(m) == {p[1] : p \in m}

(***************************************************************************)
(* tree.go: Node and Tree.  A node is named by the keys on the way from    *)
(* the root to it (the root is <<>>), so node.children[key] is the node    *)
(* named Append(node, key).                                                *)
(***************************************************************************)

NilHandler == <<"nil", 0>>
RootId == <<>>
RootKey == <<"/">>

NewNode(key, depth) ==
    [key |-> key, path |-> <<>>, handle |-> NilHandler, depth |-> depth,
     isEnd |-> FALSE, middleware |-> <<>>]

NewTree ==
    [nodes |-> (RootId :> NewNode(RootKey, 1)),
     parameters |-> [routeName |-> ""],
     routes |-> [n \in {} |-> RootId]]

\* The children of node id, as node names.
Children(t, id) ==
    {c \in DOMAIN t.nodes : Len(c) = Len(id) + 1 /\ SubSeq(c, 1, Len(id)) = id}

\* Register's descent (tree.go:66-76): a missing child is created with the
\* middleware of this registration; an existing one is left as it is.
RECURSIVE RegisterWalk(_, _, _, _)
RegisterWalk(nodes, currNode, keyList, middleware) ==
    IF keyList = <<>> THEN [nodes |-> nodes, currNode |-> currNode]
    ELSE LET key == Head(keyList)
             child == Append(currNode, key)
         IN  IF child \in DOMAIN nodes
             THEN RegisterWalk(nodes, child, Tail(keyList), middleware)
             ELSE RegisterWalk(
                      nodes @@ (child :> [NewNode(key, nodes[currNode].depth + 1)
                                             EXCEPT !.middleware = @ \o middleware]),
                      child, Tail(keyList), middleware)

\* Tree.Register
Register(t, pattern, handle, middleware) ==
    LET atRoot == pattern = t.nodes[RootId].key
        pat == IF atRoot THEN pattern ELSE trimPathPrefix(pattern)
        w == IF atRoot THEN [nodes |-> t.nodes, currNode |-> RootId]
             ELSE RegisterWalk(t.nodes, RootId, splitPattern(pat), middleware)
        n0 == w.nodes[w.currNode]
        n1 == IF Len(middleware) > 0 /\ n0.depth = 1
              THEN [n0 EXCEPT !.middleware = @ \o middleware] ELSE n0
        n2 == [n1 EXCEPT !.handle = handle, !.isEnd = TRUE, !.path = pat]
        routeName == t.parameters.routeName
    IN  [t EXCEPT !.nodes = [w.nodes EXCEPT ![w.currNode] = n2],
                  !.routes = IF routeName # ""
                             THEN [n \in DOMAIN @ \cup {routeName} |->
                                      IF n = routeName THEN w.currNode ELSE @[n]]
                             ELSE @]

\* The orders in which a range over a Go map may visit the set S.
Perms(S) ==
    {f \in [1..Cardinality(S) -> S] : \A i, j \in 1..Cardinality(S) : f[i] = f[j] => i = j}

\* The lists queueTemp that one level of Search's walk can build: for each
\* node of queue in turn, its children in some map order.
RECURSIVE ChildLists(_, _)
ChildLists(t, queue) ==
    IF queue = <<>> THEN {<<>>}
    ELSE {cs \o rest : cs \in Perms(Children(t, Head(queue))),
                       rest \in ChildLists(t, Tail(queue))}

\* The breadth-first walk of Search (tree.go:125-138): the lists of end
\* nodes it can return from queue.
RECURSIVE Walk(_, _)
Walk(t, queue) ==
    IF queue = <<>> THEN {<<>>}
    ELSE LET ends == SelectSeq(queue, LAMBDA n : t.nodes[n].isEnd)
         IN  {ends \o rest : rest \in UNION {Walk(t, q) : q \in ChildLists(t, queue)}}

\* Search's descent (tree.go:109-123): found (a node whose path is the
\* pattern), none (a key is missing, exact mode) or walk (from the node).
RECURSIVE SearchWalk(_, _, _, _, _)
SearchWalk(t, node, keyList, pattern, isRegex) ==
    IF keyList = <<>> THEN [kind |-> "walk", node |-> node]
    ELSE LET child == Append(node, Head(keyList))
         IN  IF child \notin DOMAIN t.nodes
             THEN IF isRegex THEN [kind |-> "walk", node |-> node]
                  ELSE [kind |-> "none", node |-> node]
             ELSE IF pattern = t.nodes[child].path /\ ~isRegex
             THEN [kind |-> "found", node |-> child]
             ELSE SearchWalk(t, child, Tail(keyList), pattern, isRegex)

\* Tree.Search: the node lists it can return.
Search(t, pattern, isRegex) ==
    IF pattern = t.nodes[RootId].path THEN {<<RootId>>}
    ELSE LET pat == IF ~isRegex THEN trimPathPrefix(pattern) ELSE pattern
             d == SearchWalk(t, RootId, splitPattern(pat), pat, isRegex)
         IN  IF d.kind = "found" THEN {<<d.node>>}
             ELSE IF d.kind = "none" THEN {<<>>}
             ELSE Walk(t, <<d.node>>)

(***************************************************************************)
(* router.go: matchAndParse                                                *)
(***************************************************************************)

PanicIndex == "index out of range"
PanicRegexp == "regexp: Compile"

\* The loop over the route's segments (router.go:318-343): the expression
\* text and the capture names it collects, or the panic it ends in.
RECURSIVE BuildPattern(_, _, _)
BuildPattern(list, pattern, matchName) ==
    IF list = <<>> THEN [panic |-> "", pattern |-> pattern, matchName |-> matchName]
    ELSE LET str == Head(list)
         IN  IF str = <<>> THEN BuildPattern(Tail(list), pattern, matchName)
             ELSE IF str[1] = "{" /\ str[Len(str)] = "}"
             THEN LET matchStr == SubSeq(str, 2, Len(str) - 1)
                      parts == Split(matchStr, ":")
                  IN  IF Len(parts) < 2
                      THEN [panic |-> PanicIndex, pattern |-> pattern, matchName |-> matchName]
                      ELSE BuildPattern(Tail(list),
                                        pattern \o <<"/", "(">> \o parts[2] \o <<")">>,
                                        matchName)
             ELSE IF str[1] = ":"
             THEN LET parts == Split(str, ":")
                  IN  BuildPattern(Tail(list),
                                   pattern \o <<"/", "(">>
                                     \o (IF parts[2] = idKey THEN idPattern ELSE defaultPattern)
                                     \o <<")">>,
                                   Append(matchName, parts[2]))
             ELSE BuildPattern(Tail(list), pattern \o <<"/">> \o str, matchName)

\* The part of subMatch that the loop of router.go:353 ranges over
\* (router.go:352, subMatch[:1]).
KeptSubMatch(subMatch) == SubSeq(subMatch, 1, 1)

\* The loop of router.go:353-355: matchParams[matchName[k]] = v for each
\* kept submatch; matchName[k] panics when there are fewer names.
RECURSIVE StoreParams(_, _, _, _)
StoreParams(subMatch, matchName, k, matchParams) ==
    IF k > Len(subMatch) THEN [panic |-> "", matchParams |-> matchParams]
    ELSE IF k > Len(matchName) THEN [panic |-> PanicIndex, matchParams |-> matchParams]
    ELSE StoreParams(subMatch, matchName, k + 1,
                     MapPut(matchParams, matchName[k], subMatch[k]))

NoMatch == [panic |-> "", b |-> FALSE, matchParams |-> {}]
MatchPanic(msg) == [panic |-> msg, b |-> FALSE, matchParams |-> {}]

\* router.go:353-356, the return after the loop has stored the parameters
MatchStored(stored) ==
    IF stored.panic # "" THEN MatchPanic(stored.panic)
    ELSE [panic |-> "", b |-> TRUE, matchParams |-> stored.matchParams]

\* router.go:350-360, given what FindSubmatch returned
MatchFound(requestURL, matchName, subMatch) ==
    IF subMatch # <<>> /\ subMatch[1] = requestURL
    THEN MatchStored(StoreParams(KeptSubMatch(subMatch), matchName, 1, {}))
    ELSE NoMatch

\* router.go:349-350, given what regexp.MustCompile made of the pattern
MatchCompiled(requestURL, matchName, regex) ==
    IF ~regex.ok THEN MatchPanic(PanicRegexp)
    ELSE MatchFound(requestURL, matchName, FindSubmatch(regex.atoms, requestURL))

\* router.go:345-349, given what the loop over the segments built
MatchBuilt(requestURL, built) ==
    IF built.panic # "" THEN MatchPanic(built.panic)
    ELSE MatchCompiled(requestURL, built.matchName,
                       Compile(IF HasSuffixSlash(requestURL)
                               THEN built.pattern \o <<"/">> ELSE built.pattern))

\* Router.matchAndParse
matchAndParse(requestURL, path) ==
    MatchBuilt(requestURL, BuildPattern(Split(path, "/"), <<>>, <<>>))

(***************************************************************************)
(* router.go: Generate                                                     *)
(***************************************************************************)

ErrGenerateParameters == "params contains invalid parameters"
ErrRouteNotFound == "route not found"
ErrMethodNotFound == "method not found"
ErrPatternGrammar == "pattern grammar error"

GenPanic(msg) == [path |-> <<>>, err |-> "", panic |-> msg]
GenErr(err) == [path |-> <<>>, err |-> err, panic |-> ""]

\* The pattern a named-simple segment's value is checked against
\* (router.go:187).
SimplePattern(name) == defaultPattern

\* The loop over the stored pattern's segments (router.go:184-214).
RECURSIVE GenerateSegments(_, _, _)
GenerateSegments(list, params, segments) ==
    IF list = <<>>
    THEN [path |-> <<"/">> \o Join(segments, "/"), err |-> "", panic |-> ""]
    ELSE LET segment == Head(list)
             segmentLen == Len(segment)
         IN  IF segment = <<>> THEN GenPanic(PanicIndex)
             ELSE IF segment[1] = ":"
             THEN LET key == MapGet(params, Tail(segment))
                      regex == Compile(SimplePattern(Tail(segment)))
                  IN  IF ~Finds(regex.atoms, key) THEN GenErr(ErrGenerateParameters)
                      ELSE GenerateSegments(Tail(list), params, Append(segments, key))
             ELSE IF segment[1] = "{"
             THEN IF segment[segmentLen] = "}"
                  THEN LET splitList == Split(SubSeq(segment, 2, segmentLen - 1), ":")
                           regex == Compile(splitList[2])
                           key == MapGet(params, splitList[1])
                       IN  IF Len(splitList) < 2 THEN GenPanic(PanicIndex)
                           ELSE IF ~regex.ok THEN GenPanic(PanicRegexp)
                           ELSE IF ~Finds(regex.atoms, key) THEN GenErr(ErrGenerateParameters)
                           ELSE GenerateSegments(Tail(list), params, Append(segments, key))
                  ELSE GenErr(ErrPatternGrammar)
             ELSE IF segment[segmentLen] = "}" /\ segment[1] # "{"
             THEN GenErr(ErrPatternGrammar)
             ELSE GenerateSegments(Tail(list), params, Append(segments, segment))

\* Router.Generate, as a function of the trees
GenerateResult(ts, method, routeName, params) ==
    IF method \notin DOMAIN ts THEN GenErr(ErrMethodNotFound)
    ELSE IF routeName \notin DOMAIN ts[method].routes THEN GenErr(ErrRouteNotFound)
    ELSE LET route == ts[method].nodes[ts[method].routes[routeName]]
         IN  GenerateSegments(splitPattern(route.path), params, <<>>)

(***************************************************************************)
(* router.go: handle, HandleNotFound, ServeHTTP                            *)
(*                                                                         *)
(* A handler function is the sequence of what runs when it is called: a    *)
(* plain handler h is <<h>>, and m(next) is m's own step followed by its   *)
(* call of next.                                                           *)
(***************************************************************************)

\* The other wrapping order, in which the first stored middleware would be
\* the outermost: m1(m2(...(handler))).
WrapAllForward(baseHandler, middleware) == middleware \o baseHandler

\* The loop of router.go:295-297: baseHandler = m(baseHandler) for each m.
RECURSIVE WrapAll(_, _)
WrapAll(baseHandler, middleware) ==
    IF middleware = <<>> THEN baseHandler
    ELSE WrapAll(<<Head(middleware)>> \o baseHandler, Tail(middleware))

\* Calling a handler function: each step in the order it runs.
RECURSIVE Invoke(_)
Invoke(f) == IF f = <<>> THEN <<>> ELSE <<Head(f)>> \o Invoke(Tail(f))

NoParams == [set |-> FALSE, map |-> {}]

\* handle: one call record, with the request's parameter store as the
\* handler sees it and the steps in the order they ran.
handle(ctx, handler, middleware) ==
    [handler |-> handler, middleware |-> middleware, ctx |-> ctx,
     trace |-> Invoke(WrapAll(<<handler>>, middleware))]

\* GetAllParams / GetParam on the request a call was given
GetAllParams(call) == IF call.ctx.set THEN call.ctx.map ELSE {}
GetParam(call, key) == MapGet(GetAllParams(call), key)

\* Router.HandleNotFound: the calls of handle it makes (none when
\* http.NotFound answers).
HandleNotFound(rt, ctx, middleware) ==
    IF rt.notFound # NilHandler THEN <<handle(ctx, rt.notFound, middleware)>> ELSE <<>>

NoScan == [kind |-> "none", node |-> RootId, matchParams |-> {}, panic |-> ""]

\* The loop of router.go:267-276 over the scanned nodes: the first node
\* that matches (handled), a panic of matchAndParse, or none.  ScanTry is
\* the body of the loop for one node, given what matchAndParse returned.
RECURSIVE ScanLoop(_, _, _)
RECURSIVE ScanTry(_, _, _, _)
ScanLoop(t, nodes, requestURL) ==
    IF nodes = <<>> THEN NoScan
    ELSE IF t.nodes[Head(nodes)].handle # NilHandler
            /\ t.nodes[Head(nodes)].path # requestURL
    THEN ScanTry(t, nodes, requestURL,
                 matchAndParse(requestURL, t.nodes[Head(nodes)].path))
    ELSE ScanLoop(t, Tail(nodes), requestURL)

ScanTry(t, nodes, requestURL, m) ==
    IF m.panic # ""
    THEN [kind |-> "panic", node |-> Head(nodes), matchParams |-> {}, panic |-> m.panic]
    ELSE IF m.b
    THEN [kind |-> "handled", node |-> Head(nodes), matchParams |-> m.matchParams,
          panic |-> ""]
    ELSE ScanLoop(t, Tail(nodes), requestURL)

\* router.go:249-261, what becomes of the first node of the exact search:
\* its handler is called and ServeHTTP returns ("return"), its handler is
\* called and ServeHTTP goes on ("fall"), or nothing ("skip").
ExactStep(t, nodes, requestURL) ==
    IF Len(nodes) > 0 /\ t.nodes[nodes[1]].handle # NilHandler
    THEN IF t.nodes[nodes[1]].path = requestURL THEN "return"
         ELSE IF t.nodes[nodes[1]].path = Tail(requestURL) THEN "fall"
         ELSE "skip"
    ELSE "skip"

Outcome(calls, notFound, panic, node) ==
    [calls |-> calls, notFound |-> notFound, panic |-> panic, node |-> node]

\* The calls of handle that router.go:249-261 makes.
ExactCalls(t, nodes, first) ==
    IF first = "skip" THEN <<>>
    ELSE <<handle(NoParams, t.nodes[nodes[1]].handle, t.nodes[nodes[1]].middleware)>>

\* router.go:248-279 given the outcome of the exact step and of the scan
\* (which runs only when the exact search returned no node).
ServeSteps(rt, t, nodes, first, scan) ==
    IF first = "return" THEN Outcome(ExactCalls(t, nodes, first), 0, "", <<nodes[1]>>)
    ELSE IF scan.kind = "panic" THEN Outcome(<<>>, 0, scan.panic, <<>>)
    ELSE IF scan.kind = "handled"
    THEN Outcome(<<handle([set |-> TRUE, map |-> scan.matchParams],
                          t.nodes[scan.node].handle, t.nodes[scan.node].middleware)>>,
                 0, "", <<scan.node>>)
    ELSE Outcome(ExactCalls(t, nodes, first) \o HandleNotFound(rt, NoParams, rt.middleware),
                 1, "", IF first = "fall" THEN <<nodes[1]>> ELSE <<>>)

\* Router.ServeHTTP on router rt, given the node lists the two searches
\* returned (scanned is read only when nodes is empty).
ServeOutcome(rt, ts, method, requestURL, nodes, scanned) ==
    IF method \notin DOMAIN ts
    THEN Outcome(HandleNotFound(rt, NoParams, rt.middleware), 1, "", <<>>)
    ELSE ServeSteps(rt, ts[method], nodes, ExactStep(ts[method], nodes, requestURL),
                    IF Len(nodes) = 0 THEN ScanLoop(ts[method], scanned, requestURL)
                    ELSE NoScan)

(***************************************************************************)
(* the state machine                                                       *)
(***************************************************************************)

\* bounds of the model
MaxRegs == 2
MaxGroups == 1
MaxUse == 2

\* router.go:32-40
methods == {"GET", "POST", "PUT", "DELETE", "PATCH", "HEAD"}

\* inputs
Methods == {"GET", "POST"}
RouteNames == {"N"}
QueryNames == {"N", "M"}
NotFoundHandler == <<"nf", 0>>
WordPattern == <<"\\", "w", "+">>
Patterns ==
    { <<"/">>,
      <<"/", "u">>,
      <<"/", "u", "/", "a">>,
      <<"/", ":", "x">>,
      <<"/", "u", "/", ":", "i", "d">>,
      <<"/", "u", "/", "{", "n", ":">> \o WordPattern \o <<"}">>,
      <<"/", "{", "n", "}">>,
      <<"/", "a", "}">> }
GroupPrefixes == {<<"/", "u">>}
RequestURLs ==
    { <<"/">>,
      <<"/", "u">>,
      <<"/", "a">>,
      <<"/", "u", "/", "a">>,
      <<"/", "u", "/", "1">>,
      <<"/", "u", "/", "a", "/">> }
ParamNames == {<<"x">>, <<"i", "d">>, <<"n">>}
ParamValues == {<<"a">>, <<"1">>, <<"a", "-">>, <<"-">>}
ParamMaps == {{}} \cup {{<<k, v>> : k \in ParamNames} : v \in ParamValues}

\* inputs of the middleware specification
MwMethods == {"GET"}
MwPatterns == {<<"/">>, <<"/", "u">>, <<"/", "u", "/", "a">>, <<"/", ":", "x">>}
MwRequestURLs == {<<"/">>, <<"/", "u">>, <<"/", "u", "/", "a">>, <<"/", "a">>}

VARIABLES
    routers,  \* the Router values: routers[1] is New(), the others come from Group
    trees,    \* the map trees that all of them share: method -> Tree
    nregs,    \* the number of registrations made
    nuse,     \* the number of Use calls made
    resp,     \* what the ServeHTTP call being observed did
    gen       \* what the Generate call being observed returned

vars == <<routers, trees, nregs, nuse, resp, gen>>

NoResp ==
    [done |-> FALSE, router |-> 0, method |-> "", url |-> <<>>,
     calls |-> <<>>, notFound |-> 0, panic |-> "", recovered |-> FALSE, node |-> <<>>]
NoGen ==
    [done |-> FALSE, method |-> "", routeName |-> "", params |-> {},
     path |-> <<>>, err |-> "", panic |-> ""]

\* New
New ==
    [prefix |-> <<>>, middleware |-> <<>>, parameters |-> [routeName |-> ""],
     notFound |-> NilHandler, PanicHandler |-> FALSE]

Init ==
    /\ routers = <<New>>
    /\ trees = [m \in {} |-> NewTree]
    /\ nregs = 0
    /\ nuse = 0
    /\ resp = NoResp
    /\ gen = NoGen

\* No call is being observed: the caller is free to make the next one.
Idle == ~resp.done /\ ~gen.done

\* Router.Handle on router rt: the map trees afterwards.
HandleTrees(rt, ts, method, path, h) ==
    LET tree == IF method \in DOMAIN ts THEN ts[method] ELSE NewTree
        full == IF rt.prefix # <<>> THEN rt.prefix \o <<"/">> \o path ELSE path
        routeName == rt.parameters.routeName
        named == IF routeName # "" THEN [tree EXCEPT !.parameters.routeName = routeName]
                 ELSE tree
    IN  [m \in DOMAIN ts \cup {method} |->
            IF m = method THEN Register(named, full, h, rt.middleware) ELSE ts[m]]

\* The handler function that the next registration passes.
NextHandler == <<"h", nregs + 1>>

\* Router.Handle (Get, Post, Put, Delete, Patch, Head)
Handle(r, method, path) ==
    /\ Idle
    /\ nregs < MaxRegs
    /\ method \in methods
    /\ trees' = HandleTrees(routers[r], trees, method, path, NextHandler)
    /\ nregs' = nregs + 1
    /\ UNCHANGED <<routers, nuse, resp, gen>>

\* Router.GetAndName, PostAndName, DeleteAndName, PutAndName, PatchAndName,
\* HEADAndName
HandleAndName(r, method, path, routeName) ==
    /\ Idle
    /\ nregs < MaxRegs
    /\ method \in methods
    /\ routers' = [routers EXCEPT ![r].parameters.routeName = routeName]
    /\ trees' = HandleTrees(routers'[r], trees, method, path, NextHandler)
    /\ nregs' = nregs + 1
    /\ UNCHANGED <<nuse, resp, gen>>

\* Router.Group.  The group's middleware slice shares its backing array with
\* the parent's, which shows only when both append into spare capacity: a
\* slice grown by one-element Use calls first has spare capacity at length 3
\* (capacity 4), so it takes three Use calls before Group and two after it.
\* Below that number of Use calls every append reallocates and the slices
\* behave as values, which is how they are kept here.
Group(r, prefix) ==
    /\ Idle
    /\ Len(routers) < 1 + MaxGroups
    /\ routers' = Append(routers, [New EXCEPT !.prefix = prefix,
                                              !.middleware = routers[r].middleware])
    /\ UNCHANGED <<trees, nregs, nuse, resp, gen>>

\* The middleware function that the next Use call passes.
NextMiddleware == <<"m", nuse + 1>>

\* Router.Use
Use(r, middleware) ==
    /\ Idle
    /\ nuse < MaxUse
    /\ routers' = IF Len(middleware) > 0
                  THEN [routers EXCEPT ![r].middleware = @ \o middleware]
                  ELSE routers
    /\ nuse' = nuse + 1
    /\ UNCHANGED <<trees, nregs, resp, gen>>

\* Router.NotFoundFunc
NotFoundFunc(r, handler) ==
    /\ Idle
    /\ routers' = [routers EXCEPT ![r].notFound = handler]
    /\ UNCHANGED <<trees, nregs, nuse, resp, gen>>

\* An assignment to the exported field Router.PanicHandler
SetPanicHandler(r) ==
    /\ Idle
    /\ routers' = [routers EXCEPT ![r].PanicHandler = TRUE]
    /\ UNCHANGED <<trees, nregs, nuse, resp, gen>>

\* The record of a finished ServeHTTP call; a panic is recovered when the
\* router has a PanicHandler (router.go:235-241).
Served(r, method, requestURL, o) ==
    [done |-> TRUE, router |-> r, method |-> method, url |-> requestURL,
     calls |-> o.calls, notFound |-> o.notFound, panic |-> o.panic,
     recovered |-> o.panic # "" /\ routers[r].PanicHandler, node |-> o.node]

\* Router.ServeHTTP
ServeHTTP(r, method, requestURL) ==
    /\ ~resp.done
    /\ \E nodes \in (IF method \in DOMAIN trees
                     THEN Search(trees[method], requestURL, FALSE) ELSE {<<>>}) :
         \E scanned \in (IF method \in DOMAIN trees /\ nodes = <<>>
                         THEN Search(trees[method], Split(requestURL, "/")[2], TRUE)
                         ELSE {<<>>}) :
            resp' = Served(r, method, requestURL,
                           ServeOutcome(routers[r], trees, method, requestURL, nodes, scanned))
    /\ UNCHANGED <<routers, trees, nregs, nuse, gen>>

\* The record of a finished Generate call.
Returned(method, routeName, params, g) ==
    [done |-> TRUE, method |-> method, routeName |-> routeName,
     params |-> params, path |-> g.path, err |-> g.err, panic |-> g.panic]

\* Router.Generate
Generate(method, routeName, params) ==
    /\ Idle
    /\ gen' = Returned(method, routeName, params,
                        GenerateResult(trees, method, routeName, params))
    /\ UNCHANGED <<routers, trees, nregs, nuse, resp>>

\* The caller has a generated path in hand.
Generated == gen.done /\ gen.err = "" /\ gen.panic = ""

\* The caller is done with the call it observed.
Return ==
    /\ resp.done \/ gen.done
    /\ resp' = NoResp
    /\ gen' = NoGen
    /\ UNCHANGED <<routers, trees, nregs, nuse>>

\* Registration, naming, groups, dispatch and reverse generation.  The router
\* that serves is routers[1], the one New() made.
Next ==
    \/ \E r \in 1..Len(routers), method \in Methods, path \in Patterns :
          Handle(r, method, path)
    \/ \E r \in 1..Len(routers), method \in Methods, path \in Patterns, n \in RouteNames :
          HandleAndName(r, method, path, n)
    \/ \E r \in 1..Len(routers), prefix \in GroupPrefixes : Group(r, prefix)
    \/ SetPanicHandler(1)
    \/ \E method \in Methods, url \in RequestURLs : Idle /\ ServeHTTP(1, method, url)
    \/ Generated /\ ServeHTTP(1, gen.method, gen.path)
    \/ \E method \in Methods, n \in QueryNames, params \in ParamMaps :
          Generate(method, n, params)
    \/ Return

Spec == Init /\ [][Next]_vars

\* Middleware: Use and Group interleaved with registrations, and dispatch
\* through the chains they leave on the nodes.
NextMw ==
    \/ \E r \in 1..Len(routers), method \in MwMethods, path \in MwPatterns :
          Handle(r, method, path)
    \/ \E r \in 1..Len(routers), prefix \in GroupPrefixes : Group(r, prefix)
    \/ \E r \in 1..Len(routers) : Use(r, <<NextMiddleware>>)
    \/ NotFoundFunc(1, NotFoundHandler)
    \/ \E method \in MwMethods, url \in MwRequestURLs : Idle /\ ServeHTTP(1, method, url)
    \/ Return

SpecMw == Init /\ [][NextMw]_vars

(***************************************************************************)
(* what the specification says of a route and a request                    *)
(***************************************************************************)

IsNamedSimple(seg) == Len(seg) > 0 /\ seg[1] = ":"
IsNamedRegex(seg) ==
    /\ Len(seg) > 1 /\ seg[1] = "{" /\ seg[Len(seg)] = "}"
    /\ Len(Split(SubSeq(seg, 2, Len(seg) - 1), ":")) >= 2
IsBrace(seg) == Len(seg) > 0 /\ (seg[1] = "{" \/ seg[Len(seg)] = "}")
IsLiteral(seg) == ~IsNamedSimple(seg) /\ ~IsBrace(seg)

\* The name of a named segment, and the pattern its text has to match.
SegName(seg) ==
    IF IsNamedSimple(seg) THEN Tail(seg) ELSE Split(SubSeq(seg, 2, Len(seg) - 1), ":")[1]
SegPattern(seg) ==
    IF IsNamedSimple(seg) THEN (IF Tail(seg) = idKey THEN idPattern ELSE defaultPattern)
    ELSE Split(SubSeq(seg, 2, Len(seg) - 1), ":")[2]

\* The whole of text matches pattern.
WholeMatch(pattern, text) ==
    LET m == FindSubmatch(Compile(pattern).atoms, text)
    IN  Compile(pattern).ok /\ m # <<>> /\ m[1] = text

\* The segments of a stored route path and of a request path.
PathSegs(path) == Split(path, "/")
UrlSegs(url) == Split(trimPathPrefix(url), "/")

\* The request path whole-matches the route stored on node n: the root route
\* by equality, any other by segments (as many, literal ones equal, named
\* ones matching their pattern).
RouteMatches(n, id, url) ==
    /\ n.isEnd
    /\ IF id = RootId THEN url = n.path
       ELSE /\ Len(PathSegs(n.path)) = Len(UrlSegs(url))
            /\ \A i \in 1..Len(PathSegs(n.path)) :
                  LET seg == PathSegs(n.path)[i]
                  IN  \/ IsLiteral(seg) /\ seg = UrlSegs(url)[i]
                      \/ (IsNamedSimple(seg) \/ IsNamedRegex(seg))
                            /\ WholeMatch(SegPattern(seg), UrlSegs(url)[i])

\* The tree and the node a finished dispatch ended on.
RespTree == trees[resp.method]
Dispatched == resp.done /\ resp.node # <<>>
RespNode == RespTree.nodes[resp.node[1]]

\* The calls of route handlers (not of the not-found handler) in a dispatch.
RouteCalls == {i \in 1..Len(resp.calls) : resp.calls[i].handler[1] = "h"}

(***************************************************************************)
(* the claims                                                              *)
(***************************************************************************)

\* C1: one ServeHTTP call never both invokes a registered route handler and
\* takes the not-found path (HandleNotFound).
C1_HandlerOrNotFound ==
    resp.done => ~(RouteCalls # {} /\ resp.notFound > 0)

\* C2: when a request is dispatched to a route with named-simple segments,
\* GetParam(r, x) is the text of the request segment at the place of :x, for
\* every such segment.
C2_NamedSimpleParam ==
    (Dispatched /\ resp.node[1] # RootId /\ RouteMatches(RespNode, resp.node[1], resp.url))
    => \A c \in RouteCalls :
          \A i \in 1..Len(PathSegs(RespNode.path)) :
             IsNamedSimple(PathSegs(RespNode.path)[i])
             => GetParam(resp.calls[c], SegName(PathSegs(RespNode.path)[i]))
                   = UrlSegs(resp.url)[i]

\* The end nodes of the request's tree with a named-regex segment whose
\* route the request path whole-matches.
RegexRoutesMatched ==
    IF resp.method \notin DOMAIN trees THEN {}
    ELSE {id \in DOMAIN RespTree.nodes :
            /\ RouteMatches(RespTree.nodes[id], id, resp.url)
            /\ id # RootId
            /\ \E i \in 1..Len(PathSegs(RespTree.nodes[id].path)) :
                  IsNamedRegex(PathSegs(RespTree.nodes[id].path)[i])}

\* C3: a request whose path matches a route with a named-regex segment
\* {name:regex} is dispatched without a panic, and the handler of that route
\* gets GetParam(r, name) equal to the request segment at that place.
C3_NamedRegexParam ==
    resp.done =>
       \A id \in RegexRoutesMatched :
          /\ resp.panic = ""
          /\ resp.node = <<id>> =>
                \A c \in RouteCalls :
                   \A i \in 1..Len(PathSegs(RespNode.path)) :
                      IsNamedRegex(PathSegs(RespNode.path)[i])
                      => GetParam(resp.calls[c], SegName(PathSegs(RespNode.path)[i]))
                            = UrlSegs(resp.url)[i]

\* C4: Generate never panics: it returns a path or one of the four errors.
C4_GenerateNeverPanics ==
    gen.done =>
       /\ gen.panic = ""
       /\ gen.err \in {"", ErrMethodNotFound, ErrRouteNotFound,
                       ErrGenerateParameters, ErrPatternGrammar}

\* The stored route that a finished Generate call looked up.
GenFound ==
    /\ gen.done
    /\ gen.method \in DOMAIN trees
    /\ gen.routeName \in DOMAIN trees[gen.method].routes
GenNode == trees[gen.method].nodes[trees[gen.method].routes[gen.routeName]]

\* C5: Generate fails with InvalidParameters, and returns no path, when the
\* value supplied for a named-simple segment does not match the segment's
\* pattern, which is [\d]+ for :id and [\w]+ otherwise.
C5_GenerateChecksPattern ==
    GenFound =>
       ((\E i \in 1..Len(PathSegs(GenNode.path)) :
            LET seg == PathSegs(GenNode.path)[i]
            IN  /\ IsNamedSimple(seg)
                /\ ~Finds(Compile(SegPattern(seg)).atoms, MapGet(gen.params, SegName(seg))))
        => gen.err = ErrGenerateParameters /\ gen.path = <<>>)

\* The names of the named segments of a stored route path.
NamedKeys(path) ==
    {SegName(PathSegs(path)[i]) :
        i \in {j \in 1..Len(PathSegs(path)) :
                  IsNamedSimple(PathSegs(path)[j]) \/ IsNamedRegex(PathSegs(path)[j])}}

\* A path that Generate returned for a route with named segments has been
\* dispatched with the same method.
RoundTrip ==
    /\ GenFound /\ Generated
    /\ NamedKeys(GenNode.path) # {}
    /\ resp.done /\ resp.method = gen.method /\ resp.url = gen.path

\* C6: round trip: dispatching the path that Generate(method, N, params)
\* returned invokes the handler registered for N, and nothing else, with
\* GetAllParams equal to params restricted to the route's named segments.
C6_RoundTrip ==
    RoundTrip =>
       /\ resp.panic = ""
       /\ resp.notFound = 0
       /\ Len(resp.calls) = 1
       /\ resp.calls[1].handler = GenNode.handle
       /\ GetAllParams(resp.calls[1])
             = {p \in gen.params : p[1] \in NamedKeys(GenNode.path)}

RECURSIVE Reverse(_)
Reverse(q) == IF q = <<>> THEN <<>> ELSE Append(Reverse(Tail(q)), Head(q))

\* C7: a dispatch to a node whose stored middleware list is [m1, ..., mn]
\* runs mn first, down to m1, and the node's handler last.
C7_MiddlewareOrder ==
    Dispatched =>
       /\ RouteCalls # {}
       /\ \A c \in RouteCalls :
             resp.calls[c].trace = Reverse(RespNode.middleware) \o <<RespNode.handle>>

\* C7's case: a dispatch to a node that stores two middleware ran the second,
\* then the first, then the handler.
C7_Witness ==
    /\ Dispatched
    /\ Len(RespNode.middleware) = 2
    /\ resp.calls[1].trace
          = <<RespNode.middleware[2], RespNode.middleware[1], RespNode.handle>>

\* The end nodes of the request's tree whose route the request path
\* whole-matches.
RoutesMatched ==
    IF resp.method \notin DOMAIN trees THEN {}
    ELSE {id \in DOMAIN RespTree.nodes :
            /\ RespTree.nodes[id].handle # NilHandler
            /\ RouteMatches(RespTree.nodes[id], id, resp.url)}

\* C8: when some registered route of the request's method whole-matches the
\* request path, a dispatch that does not panic invokes the handler of a
\* matching route.
C8_DispatchComplete ==
    (resp.done /\ resp.panic = "" /\ RoutesMatched # {})
    => \E c \in RouteCalls :
          \E id \in RoutesMatched : resp.calls[c].handler = RespTree.nodes[id].handle

\* The name index of every tree: <<method, name, node>>.
RouteIndex(ts) ==
    UNION {{<<m, n, ts[m].routes[n]>> : n \in DOMAIN ts[m].routes} : m \in DOMAIN ts}

\* C9: a registration made without a route name leaves the name index of
\* every tree as it was.
C9_UnnamedKeepsIndex ==
    [][(\E r \in 1..Len(routers), method \in Methods, path \in Patterns :
           Handle(r, method, path))
       => RouteIndex(trees') = RouteIndex(trees)]_vars

\* The node a registration of path through router rt ends on.
TerminalId(rt, path) ==
    LET full == IF rt.prefix # <<>> THEN rt.prefix \o <<"/">> \o path ELSE path
    IN  IF full = RootKey THEN RootId ELSE splitPattern(trimPathPrefix(full))

\* C10: a registration leaves on the route's terminal node exactly the
\* middleware list its router has at that moment, and a later Use call
\* changes no node.
C10_MiddlewareCaptured ==
    [][/\ \A r \in 1..Len(routers), method \in MwMethods, path \in MwPatterns :
             Handle(r, method, path)
             => trees'[method].nodes[TerminalId(routers[r], path)].middleware
                   = routers[r].middleware
       /\ (\E r \in 1..Len(routers) : Use(r, <<NextMiddleware>>)) => trees' = trees]_vars

====
